---- MODULE Spec2Model ----
(***************************************************************************)
(* A model of fileformat.py: the Parser (binary reader) and the Builder    *)
(* (binary writer) over one file, with the integer, float and text codecs  *)
(* they call.                                                              *)
(*                                                                         *)
(* A byte is an integer in 0..255 and a bytes object a sequence of bytes.  *)
(* A str is modelled as the sequence of its characters; the characters of  *)
(* a decoded text are code points (integers), those of a format string or  *)
(* of an endian argument are one-character strings.                        *)
(***************************************************************************)
EXTENDS Integers, Sequences, FiniteSets, TLC

VARIABLES
    file,       \* the bytes of the file on disk
    pfile,      \* Parser.file: "none" (no Parser), "open" or "closed"
    pos,        \* the cursor of Parser.file
    file_size,  \* Parser.file_size, cached by Parser.__init__
    pcall,      \* the last Parser call but the releases: [op, args, start, ret, exc]
    pclose,     \* the Parser's last release: [was, exc], and n, the OS closes so far
    pc,         \* "idle", or "read_until" while read_until's loop runs
    src,        \* read_until's local src
    empties,    \* empty reads made so far by read_until's loop body
    bfile,      \* Builder.file: "none", "open" or "closed"
    bpos,       \* the cursor of Builder.file
    bcall,      \* the last Builder call but the releases: [op, args, start, ret, exc]
    bclose      \* the Builder's last release: [was, exc], and n, the OS closes so far

vars == <<file, pfile, pos, file_size, pcall, pclose, pc, src, empties,
          bfile, bpos, bcall, bclose>>

pvars == <<pfile, pos, file_size, pcall, pclose, pc, src, empties>>
bvars == <<bfile, bpos, bcall, bclose>>

(***************************************************************************)
(* Bounds of the model.                                                    *)
(***************************************************************************)
\* Longest file of the enumerated files the Parser is constructed on.
MaxFile == 3
\* Largest size argument of read_int / write_int.
MaxSize == 2
\* How far past the end of the file a seek goes.
MaxOver == 1
\* Saturation of the count of empty reads in read_until's loop.
MaxSpin == 2

(***************************************************************************)
(* Arithmetic and sequence helpers.                                        *)
(***************************************************************************)
RECURSIVE Pow(_, _)
Pow(b, n) == IF n = 0 THEN 1 ELSE b * Pow(b, n - 1)

Min(a, b) == IF a < b THEN a ELSE b

Reverse(s) == [i \in 1..Len(s) |-> s[Len(s) + 1 - i]]

\* s with n copies of x appended
Pad(s, n, x) == s \o [i \in 1..n |-> x]

\* all sequences over S of length at most n
RECURSIVE SeqsUpTo(_, _)
SeqsUpTo(S, n) ==
    IF n = 0 THEN {<<>>}
    ELSE LET shorter == SeqsUpTo(S, n - 1)
         IN  shorter \cup {Append(s, x) : s \in {t \in shorter : Len(t) = n - 1}, x \in S}

\* What a call gives: the value it returns, or the exception it raises.
Ok(v) == [exc |-> "none", val |-> v]
Err(e) == [exc |-> e, val |-> <<>>]

\* bytes.__contains__ (data in src): data is a contiguous slice of s
Contains(s, data) ==
    \E i \in 0..(Len(s) - Len(data)) : SubSeq(s, i + 1, i + Len(data)) = data

(***************************************************************************)
(* The integer codec: int.to_bytes and int.from_bytes.                     *)
(***************************************************************************)
\* int.to_bytes(size, byteorder, signed). With size 0 CPython converts 0, and
\* -1 when signed (all sign bits), to b"".
int_to_bytes(v, size, byteorder, signed) ==
    LET half == Pow(256, size) \div 2
        lo == IF signed THEN (IF size = 0 THEN 0 - 1 ELSE 0 - half) ELSE 0
        hi == IF signed THEN (IF size = 0 THEN 0 ELSE half - 1) ELSE Pow(256, size) - 1
        u  == IF v < 0 THEN v + Pow(256, size) ELSE v
        le == [i \in 1..size |-> (u \div Pow(256, i - 1)) % 256]
    IN  IF v < lo \/ v > hi THEN Err("OverflowError")
        ELSE Ok(IF byteorder = "little" THEN le ELSE Reverse(le))

\* the unsigned value of little-endian bytes
RECURSIVE le_value(_)
le_value(bs) == IF bs = <<>> THEN 0 ELSE bs[1] + 256 * le_value(Tail(bs))

\* int.from_bytes(bytes, byteorder, signed)
int_from_bytes(bs, byteorder, signed) ==
    LET le == IF byteorder = "little" THEN bs ELSE Reverse(bs)
        u  == le_value(le)
    IN  IF signed /\ Len(bs) > 0 /\ le[Len(le)] >= 128
        THEN u - Pow(256, Len(bs))
        ELSE u

(***************************************************************************)
(* The float codec: struct.pack / struct.unpack with the formats "f" and   *)
(* "d", as float_to_bytes and float_from_bytes call them.                  *)
(*                                                                         *)
(* A float is [kind, sign, exp, frac]: kind "finite" is the value          *)
(* (-1)^sign * 1.frac * 2^exp, frac a sequence of bits without trailing    *)
(* zeros; the kinds "zero", "inf" and "nan" have exp 0 and frac <<>>.      *)
(***************************************************************************)
\* the w bits of n, most significant first
Bits(n, w) == [i \in 1..w |-> (n \div Pow(2, w - i)) % 2]

\* the number a sequence of bits (most significant first) denotes
RECURSIVE BitsValue(_)
BitsValue(bs) ==
    IF bs = <<>> THEN 0 ELSE 2 * BitsValue(SubSeq(bs, 1, Len(bs) - 1)) + bs[Len(bs)]

RECURSIVE StripZeros(_)
StripZeros(bs) ==
    IF bs = <<>> \/ bs[Len(bs)] = 1 THEN bs ELSE StripZeros(SubSeq(bs, 1, Len(bs) - 1))

\* bs + 1 as a bit string of the same width, and whether it carried out
RECURSIVE IncBits(_)
IncBits(bs) ==
    IF bs = <<>> THEN [bits |-> <<>>, carry |-> TRUE]
    ELSE IF bs[Len(bs)] = 0
         THEN [bits |-> SubSeq(bs, 1, Len(bs) - 1) \o <<1>>, carry |-> FALSE]
         ELSE LET r == IncBits(SubSeq(bs, 1, Len(bs) - 1))
              IN  [bits |-> r.bits \o <<0>>, carry |-> r.carry]

\* index of the first 1 of bs (0 if there is none)
RECURSIVE FirstOne(_)
FirstOne(bs) ==
    IF bs = <<>> THEN 0
    ELSE IF bs[1] = 1 THEN 1
    ELSE LET k == FirstOne(Tail(bs)) IN IF k = 0 THEN 0 ELSE k + 1

\* the bytes (most significant first) of a bit string whose length is a multiple of 8
RECURSIVE BitsToBytes(_)
BitsToBytes(bs) ==
    IF bs = <<>> THEN <<>>
    ELSE <<BitsValue(SubSeq(bs, 1, 8))>> \o BitsToBytes(SubSeq(bs, 9, Len(bs)))

RECURSIVE BytesToBits(_)
BytesToBits(data) ==
    IF data = <<>> THEN <<>> ELSE Bits(data[1], 8) \o BytesToBits(Tail(data))

\* the widths of the exponent and fraction fields of format character c
ExpBits(c) == IF c = "d" THEN 11 ELSE 8
FracBits(c) == IF c = "d" THEN 52 ELSE 23
Bias(c) == Pow(2, ExpBits(c) - 1) - 1

\* the exponent field and fraction field of a finite value, rounded to nearest even
RoundFields(v, c) ==
    LET e0   == v.exp + Bias(c)
        sig  == IF e0 >= 1 THEN v.frac
                ELSE Pad(<<>>, 0 - e0, 0) \o <<1>> \o v.frac
        e1   == IF e0 >= 1 THEN e0 ELSE 0
        w    == FracBits(c)
        kept == IF Len(sig) <= w THEN Pad(sig, w - Len(sig), 0) ELSE SubSeq(sig, 1, w)
        rest == IF Len(sig) <= w THEN <<>> ELSE SubSeq(sig, w + 1, Len(sig))
        up   == /\ rest # <<>>
                /\ rest[1] = 1
                /\ (Len(rest) > 1 \/ kept[w] = 1)
        inc  == IncBits(kept)
    IN  IF ~up THEN [e |-> e1, f |-> kept]
        ELSE IF inc.carry THEN [e |-> e1 + 1, f |-> inc.bits]
        ELSE [e |-> e1, f |-> inc.bits]

\* struct.pack(order + c, value): order is "<", ">" or "" (native, whose byte
\* order is the platform's: native)
struct_pack(order, c, value, native) ==
    LET emax == Pow(2, ExpBits(c)) - 1
        rf   == RoundFields(value, c)
        big  == CASE value.kind = "zero" ->
                       BitsToBytes(<<value.sign>> \o Pad(<<>>, ExpBits(c) + FracBits(c), 0))
                  [] value.kind = "inf" ->
                       BitsToBytes(<<value.sign>> \o Pad(<<>>, ExpBits(c), 1)
                                   \o Pad(<<>>, FracBits(c), 0))
                  [] value.kind = "nan" ->
                       BitsToBytes(<<value.sign>> \o Pad(<<>>, ExpBits(c) + 1, 1)
                                   \o Pad(<<>>, FracBits(c) - 1, 0))
                  [] OTHER ->
                       BitsToBytes(<<value.sign>> \o Bits(rf.e, ExpBits(c)) \o rf.f)
        little == order = "<" \/ (order = "" /\ native = "little")
    IN  IF value.kind = "finite" /\ rf.e >= emax THEN Err("OverflowError")
        ELSE Ok(IF little THEN Reverse(big) ELSE big)

\* struct.unpack(order + c, data)[0]
struct_unpack(order, c, data, native) ==
    LET little == order = "<" \/ (order = "" /\ native = "little")
        bits == BytesToBits(IF little THEN Reverse(data) ELSE data)
        e    == BitsValue(SubSeq(bits, 2, 1 + ExpBits(c)))
        fr   == SubSeq(bits, 2 + ExpBits(c), Len(bits))
        k    == FirstOne(fr)
        spec(kind) == [kind |-> kind, sign |-> bits[1], exp |-> 0, frac |-> <<>>]
    IN  IF Len(data) # (1 + ExpBits(c) + FracBits(c)) \div 8 THEN Err("struct.error")
        ELSE IF e = Pow(2, ExpBits(c)) - 1
             THEN Ok(IF k = 0 THEN spec("inf") ELSE spec("nan"))
        ELSE IF e = 0 /\ k = 0 THEN Ok(spec("zero"))
        ELSE IF e = 0
             THEN Ok([kind |-> "finite", sign |-> bits[1], exp |-> 1 - Bias(c) - k,
                      frac |-> StripZeros(SubSeq(fr, k + 1, Len(fr)))])
        ELSE Ok([kind |-> "finite", sign |-> bits[1], exp |-> e - Bias(c),
                 frac |-> StripZeros(fr)])

\* the byte-order character float_from_bytes / float_to_bytes build
OrderChar(byteorder) ==
    IF byteorder = "little" THEN "<" ELSE IF byteorder = "big" THEN ">" ELSE ""

float_from_bytes(data, byteorder, double, native) ==
    struct_unpack(OrderChar(byteorder), IF double THEN "d" ELSE "f", data, native)

float_to_bytes(value, byteorder, double, native) ==
    struct_pack(OrderChar(byteorder), IF double THEN "d" ELSE "f", value, native)

(***************************************************************************)
(* The text codec: bytes.decode("utf-8") and str.encode("utf-8").          *)
(***************************************************************************)
IsCont(b) == b >= 128 /\ b <= 191

\* how many bytes the UTF-8 sequence starting bs takes (0: it is malformed)
Utf8Len(bs) ==
    LET b1 == bs[1]
        n  == Len(bs)
        c(i) == n >= i /\ IsCont(bs[i])
    IN  IF b1 <= 127 THEN 1
        ELSE IF b1 >= 194 /\ b1 <= 223 THEN (IF c(2) THEN 2 ELSE 0)
        ELSE IF b1 = 224 THEN (IF c(2) /\ bs[2] >= 160 /\ c(3) THEN 3 ELSE 0)
        ELSE IF b1 = 237 THEN (IF c(2) /\ bs[2] <= 159 /\ c(3) THEN 3 ELSE 0)
        ELSE IF b1 >= 225 /\ b1 <= 239 THEN (IF c(2) /\ c(3) THEN 3 ELSE 0)
        ELSE IF b1 = 240 THEN (IF c(2) /\ bs[2] >= 144 /\ c(3) /\ c(4) THEN 4 ELSE 0)
        ELSE IF b1 = 244 THEN (IF c(2) /\ bs[2] <= 143 /\ c(3) /\ c(4) THEN 4 ELSE 0)
        ELSE IF b1 >= 241 /\ b1 <= 243 THEN (IF c(2) /\ c(3) /\ c(4) THEN 4 ELSE 0)
        ELSE 0

\* the code point of one well-formed UTF-8 sequence
Utf8Point(bs) ==
    CASE Len(bs) = 1 -> bs[1]
      [] Len(bs) = 2 -> (bs[1] - 192) * 64 + (bs[2] - 128)
      [] Len(bs) = 3 -> (bs[1] - 224) * 4096 + (bs[2] - 128) * 64 + (bs[3] - 128)
      [] OTHER -> (bs[1] - 240) * 262144 + (bs[2] - 128) * 4096
                  + (bs[3] - 128) * 64 + (bs[4] - 128)

\* bytes.decode("utf-8"): the text, as its code points
RECURSIVE utf8_decode(_)
utf8_decode(bs) ==
    IF bs = <<>> THEN Ok(<<>>)
    ELSE LET k == Utf8Len(bs)
         IN  IF k = 0 THEN Err("UnicodeDecodeError")
             ELSE LET rest == utf8_decode(SubSeq(bs, k + 1, Len(bs)))
                  IN  IF rest.exc # "none" THEN rest
                      ELSE Ok(<<Utf8Point(SubSeq(bs, 1, k))>> \o rest.val)

\* str.encode("utf-8") of a text without surrogates
RECURSIVE utf8_encode(_)
utf8_encode(text) ==
    IF text = <<>> THEN <<>>
    ELSE LET p == text[1]
             one == IF p <= 127 THEN <<p>>
                    ELSE IF p <= 2047 THEN <<192 + (p \div 64), 128 + (p % 64)>>
                    ELSE IF p <= 65535
                         THEN <<224 + (p \div 4096), 128 + ((p \div 64) % 64), 128 + (p % 64)>>
                    ELSE <<240 + (p \div 262144), 128 + ((p \div 4096) % 64),
                           128 + ((p \div 64) % 64), 128 + (p % 64)>>
         IN  one \o utf8_encode(Tail(text))

(***************************************************************************)
(* The file object behind Parser.file and Builder.file (open(), binary     *)
(* mode): its cursor may stand anywhere at or after 0; a read returns the  *)
(* bytes there are, a write past the end fills the gap with zeros.         *)
(***************************************************************************)
\* file_read moving the cursor by the size asked for, not by the bytes read
file_read_unclamped(p, size) ==
    LET last == IF size < 0 THEN Len(file) ELSE Min(p + size, Len(file))
        data == IF p >= Len(file) THEN <<>> ELSE SubSeq(file, p + 1, last)
    IN  [data |-> data, pos |-> IF size < 0 THEN p + Len(data) ELSE p + size]

\* file.read(size) at cursor p: size None is given as -1, which reads to the end too
file_read(p, size) ==
    LET last == IF size < 0 THEN Len(file) ELSE Min(p + size, Len(file))
        data == IF p >= Len(file) THEN <<>> ELSE SubSeq(file, p + 1, last)
    IN  [data |-> data, pos |-> p + Len(data)]

\* the file after file.write(data) at cursor p
file_write(f, p, data) ==
    LET base == IF p > Len(f) THEN Pad(f, p - Len(f), 0) ELSE f
    IN  IF data = <<>> THEN f
        ELSE SubSeq(base, 1, p) \o data \o SubSeq(base, p + Len(data) + 1, Len(base))

\* file.seek(offset, whence) at cursor p, the file being n bytes long
file_seek(p, n, offset, whence) ==
    LET base == CASE whence = 0 -> 0 [] whence = 1 -> p [] OTHER -> n
        new  == base + offset
    IN  IF new < 0 THEN [ret |-> <<>>, pos |-> p, exc |-> "OSError"]
        ELSE [ret |-> new, pos |-> new, exc |-> "none"]

\* file_close releasing the OS handle whatever the state of the file
file_close_unchecked(h, n) ==
    [file |-> "closed", n |-> n + 1, exc |-> IF h = "open" THEN "none" ELSE "OSError"]

\* file.close() on a handle in state h that was released n times: closing a
\* closed file does nothing
file_close(h, n) ==
    [file |-> "closed", n |-> IF h = "open" THEN n + 1 ELSE n, exc |-> "none"]

(***************************************************************************)
(* The Parser's methods, as what a call at cursor p returns or raises and  *)
(* where it leaves the cursor: [ret, pos, exc].                            *)
(***************************************************************************)
Ret(v, p) == [ret |-> v, pos |-> p, exc |-> "none"]
Raise(e, p) == [ret |-> <<>>, pos |-> p, exc |-> e]

ByteOrders == {"little", "big"}

read(p, size) == file_read(p, size)

\* read_int without signed=signed in its call of int.from_bytes
read_int_unsigned(p, size, signed, endian) ==
    IF endian \notin ByteOrders THEN Raise("ValueError: Invalid byteorder.", p)
    ELSE LET r == read(p, size)
         IN  Ret(int_from_bytes(r.data, endian, FALSE), r.pos)

read_int(p, size, signed, endian) ==
    IF endian \notin ByteOrders THEN Raise("ValueError: Invalid byteorder.", p)
    ELSE LET r == read(p, size)
         IN  Ret(int_from_bytes(r.data, endian, signed), r.pos)

read_float(p, double, endian, native) ==
    LET r == read(p, 4)
        v == float_from_bytes(r.data, endian, double, native)
    IN  IF v.exc # "none" THEN Raise(v.exc, r.pos) ELSE Ret(v.val, r.pos)

read_str(p, size) ==
    LET r == read(p, size)
        t == utf8_decode(r.data)
    IN  IF t.exc # "none" THEN Raise(t.exc, r.pos) ELSE Ret(t.val, r.pos)

\* str.split(): the maximal runs of characters that are not whitespace
Whitespace == {" ", "\t", "\n"}

RECURSIVE SplitFrom(_, _, _)
SplitFrom(chars, cur, acc) ==
    IF chars = <<>> THEN (IF cur = <<>> THEN acc ELSE Append(acc, cur))
    ELSE IF chars[1] \in Whitespace
         THEN SplitFrom(Tail(chars), <<>>, IF cur = <<>> THEN acc ELSE Append(acc, cur))
         ELSE SplitFrom(Tail(chars), Append(cur, chars[1]), acc)

Split(fmt) == SplitFrom(fmt, <<>>, <<>>)

Digits == {"0", "1", "2", "3", "4", "5", "6", "7", "8", "9"}

DigitValue(c) ==
    CASE c = "0" -> 0 [] c = "1" -> 1 [] c = "2" -> 2 [] c = "3" -> 3 [] c = "4" -> 4
      [] c = "5" -> 5 [] c = "6" -> 6 [] c = "7" -> 7 [] c = "8" -> 8 [] OTHER -> 9

RECURSIVE DigitsValue(_)
DigitsValue(ds) ==
    IF ds = <<>> THEN 0
    ELSE 10 * DigitsValue(SubSeq(ds, 1, Len(ds) - 1)) + DigitValue(ds[Len(ds)])

\* int(text): an optional sign and at least one digit
ParseInt(text) ==
    LET signed == text # <<>> /\ text[1] \in {"+", "-"}
        ds     == IF signed THEN Tail(text) ELSE text
    IN  IF ds = <<>> \/ \E i \in 1..Len(ds) : ds[i] \notin Digits
        THEN Err("ValueError: invalid literal for int()")
        ELSE Ok(IF signed /\ text[1] = "-" THEN 0 - DigitsValue(ds) ELSE DigitsValue(ds))

\* int(arg[1:]) if len(arg) > 1 else 1
ArgSize(arg) == IF Len(arg) > 1 THEN ParseInt(Tail(arg)) ELSE Ok(1)

\* one turn of read_fmt's loop: the value appended for arg
read_arg(p, arg, endian, native) ==
    LET n == ArgSize(arg)
    IN  CASE arg[1] = "b" ->
               IF n.exc # "none" THEN Raise(n.exc, p)
               ELSE LET r == read(p, n.val) IN Ret(r.data, r.pos)
          [] arg[1] = "i" ->
               IF n.exc # "none" THEN Raise(n.exc, p) ELSE read_int(p, n.val, TRUE, endian)
          [] arg[1] = "u" ->
               IF n.exc # "none" THEN Raise(n.exc, p) ELSE read_int(p, n.val, FALSE, endian)
          [] arg[1] = "f" -> read_float(p, FALSE, endian, native)
          [] arg[1] = "d" -> read_float(p, TRUE, endian, native)
          [] arg[1] = "s" ->
               IF n.exc # "none" THEN Raise(n.exc, p) ELSE read_str(p, n.val)
          [] OTHER -> Raise("ValueError: Invalid format string.", p)

\* read_fmt's loop seeking back to where the call began when a token fails
RECURSIVE read_args_from(_, _, _, _, _, _)
read_args_from(p0, p, args, endian, native, data) ==
    IF args = <<>> THEN Ret(data, p)
    ELSE LET r == read_arg(p, Head(args), endian, native)
         IN  IF r.exc # "none" THEN Raise(r.exc, p0)
             ELSE read_args_from(p0, r.pos, Tail(args), endian, native, Append(data, r.ret))

read_args_rollback(p, args, endian, native, data) ==
    read_args_from(p, p, args, endian, native, data)

\* read_fmt's loop putting each value before the ones read so far
RECURSIVE read_args_prepend(_, _, _, _, _)
read_args_prepend(p, args, endian, native, data) ==
    IF args = <<>> THEN Ret(data, p)
    ELSE LET r == read_arg(p, Head(args), endian, native)
         IN  IF r.exc # "none" THEN Raise(r.exc, r.pos)
             ELSE read_args_prepend(r.pos, Tail(args), endian, native, <<r.ret>> \o data)

RECURSIVE read_args(_, _, _, _, _)
read_args(p, args, endian, native, data) ==
    IF args = <<>> THEN Ret(data, p)
    ELSE LET r == read_arg(p, Head(args), endian, native)
         IN  IF r.exc # "none" THEN Raise(r.exc, r.pos)
             ELSE read_args(r.pos, Tail(args), endian, native, Append(data, r.ret))

read_fmt(p, fmt, endian, native) == read_args(p, Split(fmt), endian, native, <<>>)

seek(p, offset, whence) == file_seek(p, Len(file), offset, whence)

(***************************************************************************)
(* The Builder's methods, as what a call at cursor p leaves:               *)
(* [file, pos, ret, exc].                                                  *)
(***************************************************************************)
Fail(e, p) == [file |-> file, pos |-> p, ret |-> <<>>, exc |-> e]

write(p, data) ==
    [file |-> file_write(file, p, data), pos |-> p + Len(data), ret |-> "self",
     exc |-> "none"]

write_int(p, data, size, signed, endian) ==
    IF endian \notin ByteOrders THEN Fail("ValueError: Invalid byteorder.", p)
    ELSE LET b == int_to_bytes(data, size, endian, signed)
         IN  IF b.exc # "none" THEN Fail(b.exc, p) ELSE write(p, b.val)

\* write_float asking float_to_bytes for double precision
write_float_double(p, data, endian, native) ==
    LET b == float_to_bytes(data, endian, TRUE, native)
    IN  IF b.exc # "none" THEN Fail(b.exc, p) ELSE write(p, b.val)

write_float(p, data, endian, native) ==
    LET b == float_to_bytes(data, endian, FALSE, native)
    IN  IF b.exc # "none" THEN Fail(b.exc, p) ELSE write(p, b.val)

write_str(p, data) == write(p, utf8_encode(data))

(***************************************************************************)
(* The arguments the calls are made with.                                  *)
(***************************************************************************)
\* the bytes of the enumerated files: "\n", "a", and the first byte of a
\* two-byte UTF-8 sequence
FileBytes == {10, 97, 195}

\* 01 00 FF "abc"; "abc\ndef"; "e acute" and "a" in UTF-8
ExampleFiles ==
    {<<1, 0, 255, 97, 98, 99>>, <<97, 98, 99, 10, 100, 101, 102>>, <<195, 169, 97>>}

Files == SeqsUpTo(FileBytes, MaxFile) \cup ExampleFiles

Endians == ByteOrders \cup {"middle"}

Sizes == 0..MaxSize

ReadSizes == (0 - 1)..MaxSize

Delimiters == {<<>>, <<10>>, <<97, 10>>, <<10, 10>>}

Whences == {0, 1, 2}

Offsets == (0 - 1)..(MaxFile + MaxOver)

\* the platform's byte order, where a call with this endian depends on it
Natives(endian) == IF endian \in ByteOrders THEN {"little"} ELSE ByteOrders

Formats ==
    {<<>>,
     <<"b">>,
     <<"b", "2", " ", "b">>,
     <<"b", "-", "1">>,
     <<"i">>,
     <<"i", "2">>,
     <<"u", "2", " ", "i", "1", " ", "s", "3">>,
     <<"u", " ", "i">>,
     <<"s">>,
     <<"s", "2">>,
     <<"s", "3", " ", "b">>,
     <<"f">>,
     <<"d">>,
     <<"f", "8", " ", "b">>,
     <<"x">>,
     <<"b", " ", "x">>,
     <<"i", "2", " ", "x", "1">>,
     <<"s", " ", "x">>,
     <<"f", " ", "x">>,
     <<"b", "z">>,
     <<"b", " ", "2">>,
     <<"u", "2", " ", " ", "i">>}

\* around the ends of the ranges of each size, signed and unsigned
IntInputs ==
    {0 - 1, 0, 1, 300}
    \cup UNION {{0 - (Pow(256, n) \div 2) - 1, 0 - (Pow(256, n) \div 2),
                 (Pow(256, n) \div 2) - 1, Pow(256, n) \div 2,
                 Pow(256, n) - 1, Pow(256, n)} : n \in 1..MaxSize}

Finite(sign, exp, frac) == [kind |-> "finite", sign |-> sign, exp |-> exp, frac |-> frac]

\* 0.0, 1.0, -2.5, 2^24 + 1 (rounded by "f"), 2^128 (too large for "f")
FloatInputs ==
    {[kind |-> "zero", sign |-> 0, exp |-> 0, frac |-> <<>>],
     Finite(0, 0, <<>>),
     Finite(1, 1, <<0, 1>>),
     Finite(0, 24, Pad(<<>>, 23, 0) \o <<1>>),
     Finite(0, 128, <<>>)}

\* "", "a", "e acute"
Texts == {<<>>, <<97>>, <<233>>}

Chunks == {<<>>, <<97>>, <<10, 97>>}

(***************************************************************************)
(* The Parser's operations.  A method is called on a Parser whose file is  *)
(* open and that is not inside a call (the program is single-threaded).    *)
(***************************************************************************)
NoCall == [op |-> "__init__", args |-> <<>>, start |-> 0, ret |-> <<>>, exc |-> "none"]
NoClose == [was |-> "none", exc |-> "none", n |-> 0]

\* Parser.__init__: open(file_name, "rb"); file_size = seek(0, 2); seek(0)
Parser_init ==
    /\ pfile = "none"
    /\ bfile = "closed"
    /\ pfile' = "open"
    /\ file_size' = file_seek(0, Len(file), 0, 2).ret
    /\ pos' = file_seek(file_seek(0, Len(file), 0, 2).pos, Len(file), 0, 0).pos
    /\ pcall' = NoCall
    /\ UNCHANGED <<file, pclose, pc, src, empties, bvars>>

\* the call op(args) at the cursor, which r describes, is over
Returns(op, args, r) ==
    /\ pfile = "open"
    /\ pc = "idle"
    /\ pos' = r.pos
    /\ pcall' = [op |-> op, args |-> args, start |-> pos, ret |-> r.ret, exc |-> r.exc]
    /\ UNCHANGED <<file, pfile, file_size, pclose, pc, src, empties, bvars>>

Parser_read ==
    \E size \in ReadSizes :
        LET r == read(pos, size)
        IN  Returns("read", [size |-> size], Ret(r.data, r.pos))

\* read_all: self.read(None)
Parser_read_all ==
    LET r == read(pos, 0 - 1)
    IN  Returns("read_all", <<>>, Ret(r.data, r.pos))

Parser_read_int ==
    \E size \in Sizes, signed \in BOOLEAN, endian \in Endians :
        Returns("read_int", [size |-> size, signed |-> signed, endian |-> endian],
                read_int(pos, size, signed, endian))

Parser_read_float ==
    \E double \in BOOLEAN, endian \in Endians : \E native \in Natives(endian) :
        Returns("read_float", [double |-> double, endian |-> endian],
                read_float(pos, double, endian, native))

Parser_read_str ==
    \E size \in Sizes \cup {MaxSize + 1} :
        Returns("read_str", [size |-> size], read_str(pos, size))

Parser_read_fmt ==
    \E fmt \in Formats, endian \in Endians : \E native \in Natives(endian) :
        Returns("read_fmt", [fmt |-> fmt, endian |-> endian],
                read_fmt(pos, fmt, endian, native))

\* seek, asked to go at most MaxOver bytes past the end of the file
Parser_seek ==
    \E offset \in Offsets, whence \in Whences :
        /\ seek(pos, offset, whence).pos <= Len(file) + MaxOver
        /\ Returns("seek", [offset |-> offset, whence |-> whence],
                   seek(pos, offset, whence))

Parser_tell == Returns("tell", <<>>, Ret(pos, pos))

\* read_until beginning with a read of one byte more than the delimiter
Parser_read_until_overread ==
    \E data \in Delimiters :
        /\ pfile = "open"
        /\ pc = "idle"
        /\ pc' = "read_until"
        /\ src' = read(pos, Len(data) + 1).data
        /\ pos' = read(pos, Len(data) + 1).pos
        /\ empties' = 0
        /\ pcall' = [op |-> "read_until", args |-> [data |-> data], start |-> pos,
                     ret |-> <<>>, exc |-> "none"]
        /\ UNCHANGED <<file, pfile, file_size, pclose, bvars>>

\* read_until up to its loop: src = self.read(len(data))
Parser_read_until ==
    \E data \in Delimiters :
        /\ pfile = "open"
        /\ pc = "idle"
        /\ pc' = "read_until"
        /\ src' = read(pos, Len(data)).data
        /\ pos' = read(pos, Len(data)).pos
        /\ empties' = 0
        /\ pcall' = [op |-> "read_until", args |-> [data |-> data], start |-> pos,
                     ret |-> <<>>, exc |-> "none"]
        /\ UNCHANGED <<file, pfile, file_size, pclose, bvars>>

\* one turn of read_until's loop: while data not in src: src += self.read(1)
Parser_read_until_loop ==
    /\ pc = "read_until"
    /\ ~Contains(src, pcall.args.data)
    /\ src' = src \o read(pos, 1).data
    /\ pos' = read(pos, 1).pos
    /\ empties' = IF read(pos, 1).data = <<>> THEN Min(empties + 1, MaxSpin) ELSE empties
    /\ UNCHANGED <<file, pfile, file_size, pcall, pclose, pc, bvars>>

\* read_until leaves its loop: return src
Parser_read_until_return ==
    /\ pc = "read_until"
    /\ Contains(src, pcall.args.data)
    /\ pc' = "idle"
    /\ pcall' = [pcall EXCEPT !.ret = src]
    /\ src' = <<>>
    /\ UNCHANGED <<file, pfile, pos, file_size, pclose, empties, bvars>>

\* Parser.close: self.file.close(), on a file that is open (was) or closed already
Parser_close ==
    /\ pfile \in {"open", "closed"}
    /\ pc = "idle"
    /\ pfile' = file_close(pfile, pclose.n).file
    /\ pclose' = [was |-> pfile, exc |-> file_close(pfile, pclose.n).exc,
                  n |-> file_close(pfile, pclose.n).n]
    /\ UNCHANGED <<file, pos, file_size, pcall, pc, src, empties, bvars>>

\* __exit__ and __del__: self.close()
Parser_exit == Parser_close
Parser_del == Parser_close

(***************************************************************************)
(* The Builder's operations.                                               *)
(***************************************************************************)
\* the call op(args) at the cursor, which w describes, is over.  The model
\* follows a Builder up to its first write of bytes: it is called while the file
\* it opened is still empty.
Written(op, args, w) ==
    /\ bfile = "open"
    /\ file = <<>>
    /\ file' = w.file
    /\ bpos' = w.pos
    /\ bcall' = [op |-> op, args |-> args, start |-> bpos, ret |-> w.ret, exc |-> w.exc]
    /\ UNCHANGED <<bfile, bclose, pvars>>

Builder_write ==
    \E data \in Chunks : Written("write", [data |-> data], write(bpos, data))

Builder_write_int ==
    \E data \in IntInputs, size \in Sizes, signed \in BOOLEAN, endian \in Endians :
        Written("write_int",
                [data |-> data, size |-> size, signed |-> signed, endian |-> endian],
                write_int(bpos, data, size, signed, endian))

Builder_write_float ==
    \E data \in FloatInputs, endian \in Endians : \E native \in Natives(endian) :
        Written("write_float", [data |-> data, endian |-> endian],
                write_float(bpos, data, endian, native))

Builder_write_str ==
    \E data \in Texts : Written("write_str", [data |-> data], write_str(bpos, data))

Builder_seek ==
    \E offset \in 0..MaxOver :
        LET r == file_seek(bpos, Len(file), offset, 0)
        IN  Written("seek", [offset |-> offset, whence |-> 0],
                    [file |-> file, pos |-> r.pos, ret |-> r.ret, exc |-> r.exc])

Builder_tell ==
    Written("tell", <<>>, [file |-> file, pos |-> bpos, ret |-> bpos, exc |-> "none"])

\* Builder.close: self.file.close()
Builder_close ==
    /\ bfile \in {"open", "closed"}
    /\ bfile' = file_close(bfile, bclose.n).file
    /\ bclose' = [was |-> bfile, exc |-> file_close(bfile, bclose.n).exc,
                  n |-> file_close(bfile, bclose.n).n]
    /\ UNCHANGED <<file, bpos, bcall, pvars>>

\* __exit__ and __del__: self.close()
Builder_exit == Builder_close
Builder_del == Builder_close

(***************************************************************************)
(* Spec: a Parser constructed on a file there is.                          *)
(***************************************************************************)
Init ==
    /\ file \in Files
    /\ pfile = "open"
    /\ pos = 0
    /\ file_size = Len(file)
    /\ pcall = NoCall
    /\ pclose = NoClose
    /\ pc = "idle"
    /\ src = <<>>
    /\ empties = 0
    /\ bfile = "none"
    /\ bpos = 0
    /\ bcall = NoCall
    /\ bclose = NoClose

Next ==
    \/ Parser_read
    \/ Parser_read_all
    \/ Parser_read_int
    \/ Parser_read_float
    \/ Parser_read_str
    \/ Parser_read_until
    \/ Parser_read_until_loop
    \/ Parser_read_until_return
    \/ Parser_read_fmt
    \/ Parser_seek
    \/ Parser_tell
    \/ Parser_close
    \/ Parser_exit
    \/ Parser_del

Spec == Init /\ [][Next]_vars

(***************************************************************************)
(* SpecBuild: a Builder constructed (open(file_name, "wb") empties the     *)
(* file), called and released, and then a Parser constructed on the file   *)
(* it wrote and released.                                                  *)
(***************************************************************************)
InitBuild ==
    /\ file = <<>>
    /\ bfile = "open"
    /\ bpos = 0
    /\ bcall = NoCall
    /\ bclose = NoClose
    /\ pfile = "none"
    /\ pos = 0
    /\ file_size = 0
    /\ pcall = NoCall
    /\ pclose = NoClose
    /\ pc = "idle"
    /\ src = <<>>
    /\ empties = 0

NextBuild ==
    \/ Builder_write
    \/ Builder_write_int
    \/ Builder_write_float
    \/ Builder_write_str
    \/ Builder_seek
    \/ Builder_tell
    \/ Builder_close
    \/ Builder_exit
    \/ Builder_del
    \/ Parser_init
    \/ Parser_close
    \/ Parser_exit
    \/ Parser_del

SpecBuild == InitBuild /\ [][NextBuild]_vars

(***************************************************************************)
(* SpecRoundTrip: a Builder that seeks and writes an integer and is        *)
(* closed, and then a Parser constructed on the file it wrote, which reads *)
(* integers from it one after the other.                                   *)
(***************************************************************************)
NextRoundTrip ==
    \/ Builder_seek
    \/ Builder_write_int
    \/ Builder_close
    \/ Parser_init
    \/ Parser_read_int

SpecRoundTrip == InitBuild /\ [][NextRoundTrip]_vars

(***************************************************************************)
(* The properties.                                                         *)
(***************************************************************************)
\* v fits in size bytes: 0 <= v < 256^size unsigned, and signed
\* -256^size / 2 <= v < 256^size / 2
Representable(v, size, signed) ==
    IF signed THEN 0 - Pow(256, size) <= 2 * v /\ 2 * v < Pow(256, size)
    ELSE 0 <= v /\ v < Pow(256, size)

\* the last Builder call wrote a representable integer, with a byte order
WroteInt ==
    /\ bcall.op = "write_int"
    /\ bcall.args.endian \in ByteOrders
    /\ Representable(bcall.args.data, bcall.args.size, bcall.args.signed)

\* the last Parser call read, where the Builder wrote, an integer of the size,
\* signedness and byte order written
ReadBack ==
    /\ WroteInt
    /\ pcall.op = "read_int"
    /\ pcall.args = [size |-> bcall.args.size, signed |-> bcall.args.signed,
                     endian |-> bcall.args.endian]
    /\ pcall.start = bcall.start

\* C1: write_int(v, size, signed, endian) of a v representable in size bytes,
\* then read_int(size, signed, endian) at the offset of the write, returns v.
C1_RoundTrip ==
    /\ WroteInt => bcall.exc = "none"
    /\ ReadBack => pcall.exc = "none" /\ pcall.ret = bcall.args.data

\* C1's case: a negative two-byte integer written big-endian at offset 1 is read back
C1_Witness ==
    /\ ReadBack
    /\ bcall.args.data < 0 - 1
    /\ bcall.args.size = 2
    /\ bcall.args.endian = "big"
    /\ bcall.start = 1
    /\ pcall.ret = bcall.args.data

\* the last Builder call is a write_float that returned
WroteFloat == bcall.op = "write_float" /\ bcall.exc = "none"

\* the bytes the last Builder call wrote, the file having been empty before it
WrittenBytes == SubSeq(file, bcall.start + 1, Len(file))

\* C2 as stated: every successful write_float writes 8 bytes and moves the
\* cursor by 8.
C2_WritesEightBytes ==
    WroteFloat => Len(WrittenBytes) = 8 /\ bpos = bcall.start + 8

\* the floats "f" holds exactly: zero, and 24 significant bits with a normal exponent
ExactSingle(v) ==
    \/ v.kind = "zero"
    \/ v.kind = "finite" /\ Len(v.frac) <= 23 /\ v.exp >= 0 - 126 /\ v.exp <= 127

\* C2 as amended: every successful write_float writes 4 bytes, the IEEE-754
\* single precision encoding of the value in the byte order given, and moves
\* the cursor by 4.
C2_WritesFourBytes ==
    WroteFloat =>
        /\ Len(WrittenBytes) = 4
        /\ bpos = bcall.start + 4
        /\ (bcall.args.endian \in ByteOrders /\ ExactSingle(bcall.args.data)) =>
               struct_unpack(OrderChar(bcall.args.endian), "f", WrittenBytes, "little")
                   = Ok(bcall.args.data)

\* C2's case: -2.5 written big-endian at offset 1
C2_Witness ==
    /\ WroteFloat
    /\ bcall.args = [data |-> Finite(1, 1, <<0, 1>>), endian |-> "big"]
    /\ bcall.start = 1
    /\ WrittenBytes = <<192, 32, 0, 0>>

\* the tokens of the format of the last Parser call, a read_fmt
Tokens == Split(pcall.args.fmt)

\* a b, i, u or s token: the letter, and decimal digits or nothing after it
Plain(arg) == arg[1] \in {"b", "i", "u", "s"} /\ \A i \in 2..Len(arg) : arg[i] \in Digits

\* the size a plain token asks for
SizeOf(arg) == IF Len(arg) = 1 THEN 1 ELSE DigitsValue(Tail(arg))

\* the sizes of the first k of the tokens args, added
RECURSIVE SumSizes(_, _)
SumSizes(args, k) == IF k = 0 THEN 0 ELSE SumSizes(args, k - 1) + SizeOf(args[k])

\* the bytes of the file that plain token k of args takes, the first starting at start
SliceOf(args, k, start) ==
    SubSeq(file, start + SumSizes(args, k - 1) + 1, start + SumSizes(args, k))

\* what a plain token makes of its bytes
ValueOf(arg, bytes, endian) ==
    CASE arg[1] = "b" -> bytes
      [] arg[1] = "i" -> int_from_bytes(bytes, endian, TRUE)
      [] arg[1] = "u" -> int_from_bytes(bytes, endian, FALSE)
      [] OTHER -> utf8_decode(bytes).val

\* the last Parser call is a read_fmt of plain tokens, with a byte order, on a
\* file with the bytes they ask for
PlainFmt ==
    /\ pcall.op = "read_fmt"
    /\ pcall.args.endian \in ByteOrders
    /\ \A k \in 1..Len(Tokens) : Plain(Tokens[k])
    /\ pcall.start + SumSizes(Tokens, Len(Tokens)) <= Len(file)

\* the bytes of every s token are UTF-8
TextIsUtf8 ==
    \A k \in 1..Len(Tokens) :
        Tokens[k][1] = "s" => utf8_decode(SliceOf(Tokens, k, pcall.start)).exc = "none"

\* one value per token, each decoded from the token's bytes, and the cursor
\* after the last token's bytes
OneValuePerToken ==
    /\ pcall.exc = "none"
    /\ Len(pcall.ret) = Len(Tokens)
    /\ \A k \in 1..Len(Tokens) :
           pcall.ret[k] = ValueOf(Tokens[k], SliceOf(Tokens, k, pcall.start),
                                  pcall.args.endian)
    /\ pos = pcall.start + SumSizes(Tokens, Len(Tokens))

\* "u2 i1 s3" read little-endian at the start of 01 00 FF "abc"
ExampleFmt ==
    /\ pcall.op = "read_fmt"
    /\ pcall.args = [fmt |-> <<"u", "2", " ", "i", "1", " ", "s", "3">>, endian |-> "little"]
    /\ pcall.start = 0
    /\ file = <<1, 0, 255, 97, 98, 99>>

\* C3 as stated: read_fmt of plain tokens on a file with enough bytes returns
\* one value per token, in token order, each decoded from the bytes after those
\* of the tokens before it, and leaves the cursor after them all.
C3_ReadFmtSequential == PlainFmt => OneValuePerToken

\* C3 as amended: the same, when the bytes of every s token are UTF-8; and
\* "u2 i1 s3" on 01 00 FF "abc" returns (1, -1, "abc").
C3_ReadFmtSequentialUtf8 ==
    /\ (PlainFmt /\ TextIsUtf8) => OneValuePerToken
    /\ ExampleFmt => pcall.ret = <<1, 0 - 1, <<97, 98, 99>>>>

\* C3's case: the example, read
C3_Witness == ExampleFmt /\ pcall.ret = <<1, 0 - 1, <<97, 98, 99>>>> /\ pos = 6

\* the first index at or after i where data occurs in f (0: nowhere)
FirstAt(f, i, data) ==
    LET at == {j \in (i + 1)..(Len(f) - Len(data) + 1) :
                   SubSeq(f, j, j + Len(data) - 1) = data}
    IN  IF at = {} THEN 0 ELSE CHOOSE j \in at : \A k \in at : j <= k

\* how many times data occurs in s
Occurrences(s, data) ==
    Cardinality({j \in 1..(Len(s) - Len(data) + 1) : SubSeq(s, j, j + Len(data) - 1) = data})

\* the last Parser call is a read_until of a delimiter that is not empty and
\* occurs at or after the cursor it began at
DelimiterAhead ==
    /\ pcall.op = "read_until"
    /\ pcall.args.data # <<>>
    /\ FirstAt(file, pcall.start, pcall.args.data) > 0

\* the cursor just after the first occurrence of the delimiter
AfterDelimiter == FirstAt(file, pcall.start, pcall.args.data) + Len(pcall.args.data) - 1

\* C4: read_until of a delimiter that occurs ahead returns the bytes from the
\* cursor to the end of its first occurrence, which is the only one in them,
\* and leaves the cursor there; read_until(b"\n") on b"abc\ndef" returns b"abc\n".
C4_ReadUntilFirst ==
    /\ (DelimiterAhead /\ pc = "read_until") =>
           /\ pos <= AfterDelimiter
           /\ src = SubSeq(file, pcall.start + 1, pos)
           /\ empties = 0
    /\ (DelimiterAhead /\ pc = "idle") =>
           /\ pcall.ret = SubSeq(file, pcall.start + 1, AfterDelimiter)
           /\ pos = AfterDelimiter
           /\ Occurrences(pcall.ret, pcall.args.data) = 1
    /\ (/\ pcall.op = "read_until"
        /\ pc = "idle"
        /\ pcall.args.data = <<10>>
        /\ pcall.start = 0
        /\ file = <<97, 98, 99, 10, 100, 101, 102>>) => pcall.ret = <<97, 98, 99, 10>>

\* C4's case: the delimiter found after the loop has run, with bytes left behind it
C4_Witness ==
    /\ DelimiterAhead
    /\ pc = "idle"
    /\ pcall.start = 1
    /\ pcall.ret = <<98, 99, 10>>
    /\ pos = 4
    /\ pos < Len(file)

\* C5 as stated: read_until ends on every file: its loop does not go on once
\* a read has returned no bytes.
C5_ReadUntilStopsAtEof == pc = "read_until" => empties = 0

\* the last Parser call was given an endian that is neither "little" nor "big"
BadEndian ==
    /\ pcall.op \in {"read_int", "read_float", "read_fmt"}
    /\ pcall.args.endian \notin ByteOrders

\* the last Builder call was given an endian that is neither "little" nor "big"
BadEndianWrite ==
    /\ bcall.op \in {"write_int", "write_float"}
    /\ bcall.args.endian \notin ByteOrders

\* C6 as stated: a call with an endian other than "little" and "big" raises
\* ValueError for it and leaves the cursor and the file as they were.
C6_BadEndianRaises ==
    /\ BadEndian => pcall.exc = "ValueError: Invalid byteorder." /\ pos = pcall.start
    /\ BadEndianWrite =>
           /\ bcall.exc = "ValueError: Invalid byteorder."
           /\ bpos = bcall.start
           /\ file = <<>>

Codes == {"b", "i", "u", "f", "d", "s"}

\* the index of the first token whose letter is no code (0: there is none)
FirstBad(args) ==
    LET bad == {k \in 1..Len(args) : args[k][1] \notin Codes}
    IN  IF bad = {} THEN 0 ELSE CHOOSE k \in bad : \A j \in bad : k <= j

\* the bytes token arg consumes at cursor p
Taken(arg, p) ==
    IF arg[1] \in {"f", "d"} THEN Len(file_read(p, 4).data)
    ELSE Len(file_read(p, ArgSize(arg).val).data)

\* the cursor after the first k tokens of args, begun at p
RECURSIVE CursorAfter(_, _, _)
CursorAfter(args, k, p) ==
    IF k = 0 THEN p
    ELSE CursorAfter(args, k - 1, p) + Taken(args[k], CursorAfter(args, k - 1, p))

\* token arg, met at cursor p, gives a value
Passes(arg, p, endian) ==
    CASE arg[1] = "b" -> ArgSize(arg).exc = "none"
      [] arg[1] \in {"i", "u"} -> ArgSize(arg).exc = "none" /\ endian \in ByteOrders
      [] arg[1] = "f" -> Len(file_read(p, 4).data) = 4
      [] arg[1] = "s" ->
           /\ ArgSize(arg).exc = "none"
           /\ utf8_decode(file_read(p, ArgSize(arg).val).data).exc = "none"
      [] OTHER -> FALSE

\* the last Parser call is a read_fmt that got as far as a token with no code
MeetsBadToken ==
    /\ pcall.op = "read_fmt"
    /\ FirstBad(Tokens) > 0
    /\ \A j \in 1..(FirstBad(Tokens) - 1) :
           Passes(Tokens[j], CursorAfter(Tokens, j - 1, pcall.start), pcall.args.endian)

\* C7: read_fmt raises "Invalid format string." exactly when it meets a token
\* whose letter is no code, and the cursor is then where the tokens before it
\* left it: nothing is consumed for the token and nothing is rolled back.
C7_BadTokenRaises ==
    /\ MeetsBadToken =>
           /\ pcall.exc = "ValueError: Invalid format string."
           /\ pos = CursorAfter(Tokens, FirstBad(Tokens) - 1, pcall.start)
    /\ (pcall.op = "read_fmt" /\ pcall.exc = "ValueError: Invalid format string.") =>
           MeetsBadToken

\* C7's case: "i2 x1" read at cursor 1 raises with the cursor at 3
C7_Witness ==
    /\ MeetsBadToken
    /\ pcall.args.fmt = <<"i", "2", " ", "x", "1">>
    /\ pcall.start = 1
    /\ pos = 3
    /\ pcall.exc = "ValueError: Invalid format string."

\* the last Parser call is one C8 names
NamedCall(call) ==
    \/ call.op \in {"read", "read_all", "read_int", "read_str", "read_until", "read_fmt"}
    \/ call.op = "seek" /\ call.args.whence = 0 /\ call.args.offset >= 0

\* C8 as stated: a read, or a seek from the start to an offset that is not
\* negative, takes a cursor in [0, file_size] to a cursor in [0, file_size].
C8_CursorInFile ==
    [][(pos <= file_size /\ NamedCall(pcall')) => (0 <= pos' /\ pos' <= file_size)]_vars

\* C8 as amended: the same, the offset of the seek being at most file_size.
C8_CursorInFileSeekWithin ==
    [][(/\ pos <= file_size
        /\ NamedCall(pcall')
        /\ pcall'.op = "seek" => pcall'.args.offset <= file_size)
           => (0 <= pos' /\ pos' <= file_size)]_vars

\* C8's case: read_int asked for more bytes than are left stops at the end of the file
C8_Witness ==
    /\ pcall.op = "read_int"
    /\ pcall.exc = "none"
    /\ pcall.start < file_size
    /\ pcall.start + pcall.args.size > file_size
    /\ pos = file_size

\* C9: whatever the releases (close, __exit__, __del__) of a Parser and of a
\* Builder, none raises, the OS handle is closed once, by the first, and the
\* file is closed from then on.
C9_ReleasedOnce ==
    /\ pclose.exc = "none"
    /\ bclose.exc = "none"
    /\ pclose.n = (IF pfile = "closed" THEN 1 ELSE 0)
    /\ bclose.n = (IF bfile = "closed" THEN 1 ELSE 0)
    /\ pclose.was # "none" => pfile = "closed"
    /\ bclose.was # "none" => bfile = "closed"

\* C9's case: a Builder and a Parser each released when already closed
C9_Witness ==
    /\ pclose.was = "closed"
    /\ bclose.was = "closed"
    /\ pclose.n = 1
    /\ bclose.n = 1

\* the last Parser call is a read_float with a byte order and 4 bytes ahead
\* of it, or a read_fmt of the token f or d likewise
FloatAhead ==
    /\ \/ pcall.op = "read_float"
       \/ pcall.op = "read_fmt" /\ pcall.args.fmt \in {<<"f">>, <<"d">>}
    /\ pcall.args.endian \in ByteOrders
    /\ pcall.start + 4 <= Len(file)

\* C10 as stated: read_float, double or not, consumes 4 bytes and returns a float.
C10_ReadFloatReturns == FloatAhead => pcall.exc = "none" /\ pos = pcall.start + 4

====
